---- MODULE Spec2Model ----
(***************************************************************************)
(* The provisioning pipeline of pulumi-talos-cluster: the plain variant    *)
(* (src/main.go) and the Lima VM variant (src/unnamed/part_000).           *)
(*                                                                         *)
(* Every step is a local.Command resource: a shell script run by           *)
(* `/bin/sh -c` when the resource is created (Create) and another when it  *)
(* is deleted (Delete).  The scripts set no `-e`, so a script's exit       *)
(* status is the status of the last command it executed; the resource      *)
(* fails exactly when that status is non-zero.  The engine creates a       *)
(* resource once all resources it names in DependsOn are created, starts   *)
(* nothing new after a failure, leaves a resource already recorded in the  *)
(* stack alone on a later `up`, and deletes in reverse dependency order.   *)
(*                                                                         *)
(* The external tools are the environment.  A command that changes the     *)
(* environment may succeed or fail; an existence probe (limactl list,      *)
(* talosctl cluster show) answers by the existence of the thing it probes; *)
(* a node-list query can succeed only when the kubeconfig file exists and  *)
(* then returns any node list of at most MaxNodes nodes.                   *)
(***************************************************************************)
EXTENDS Naturals, Sequences, FiniteSets

VARIABLES
    variant,        \* "plain" (main.go) or "vm" (part_000)
    mode,           \* "idle", "up" or "destroy": the engine operation in progress
    result,         \* how the last finished operation ended
    stack,          \* the resources recorded as created in the stack
    st,             \* per step, the state of its create-action in this `up`
    del,            \* per step, the state of its delete-action in this `destroy`
    line,           \* per step, the command its running script is at
    i,              \* the loop variable $i of lima-vm and wait-for-kubernetes
    READY,          \* shell variable $READY of wait-for-kubernetes (lines of text)
    TOTAL,          \* shell variable $TOTAL of wait-for-kubernetes (lines of text)
    dirs,           \* ~/.talos (and ~/.kube) exist
    limaConfig,     \* ./talos-docker.yaml exists
    vm,             \* the Lima VM talos-docker: "none", "stopped" or "running"
    cluster,        \* the cluster talos-local exists
    kubeconfig,     \* ~/.kube/talos-config exists
    slept,          \* history: seconds slept in the current polling loop, per step
    exhausted,      \* history: the steps whose polling loop ran out in this `up`
    tookBreak,      \* history: the node-readiness loop left through `break`
    obs1,           \* history: what the $READY query of this iteration saw
    obs2,           \* history: what the $TOTAL query of this iteration saw
    lastNodes,      \* history: what the node listing of verify-cluster saw
    invoked,        \* history: the creating commands run in this `up`
    cmdFailed,      \* history: <<step, command>> pairs that exited non-zero
    upOk,           \* history: the last `up` ended with every step succeeded
    destroyOutcome  \* history: how `talosctl cluster destroy` ended since the last `up`

engine == <<variant, mode, result, stack, st, del, line, upOk>>
shell == <<i, READY, TOTAL>>
world == <<dirs, limaConfig, vm, cluster, kubeconfig>>
loops == <<slept, exhausted, tookBreak, obs1, obs2>>
hist == <<lastNodes, destroyOutcome>>
cmds == <<invoked, cmdFailed>>
vars == <<engine, shell, world, loops, hist, cmds>>

----------------------------------------------------------------------------
(* Bounds and program constants *)

MaxNodes == 2

DockerLoopCap == 30

NodeLoopCap == 60

SleepSeconds == 5

----------------------------------------------------------------------------
(* The declared steps and their dependencies *)

PlainSteps ==
    << "create-talos-dir", "create-talos-cluster", "export-kubeconfig",
       "wait-for-kubernetes", "apply-security-hardening", "verify-cluster" >>

VmSteps ==
    << "create-dirs", "create-lima-config", "lima-vm", "create-talos-cluster",
       "export-kubeconfig", "wait-for-kubernetes", "apply-security-hardening",
       "verify-cluster" >>

Range(f) == { f[k] : k \in DOMAIN f }

AllSteps == Range(PlainSteps) \cup Range(VmSteps)

Declared(v) == IF v = "plain" THEN PlainSteps ELSE VmSteps

Steps == Range(Declared(variant))

DirStep(v) == IF v = "plain" THEN "create-talos-dir" ELSE "create-dirs"

DependsOnLoose(v, s) ==
    CASE s = "create-talos-cluster" -> IF v = "plain" THEN {"create-talos-dir"} ELSE {"lima-vm"}
      [] s = "lima-vm" -> {"create-dirs", "create-lima-config"}
      [] s = "export-kubeconfig" -> {}
      [] s = "wait-for-kubernetes" -> {"export-kubeconfig"}
      [] s = "apply-security-hardening" -> {"wait-for-kubernetes"}
      [] s = "verify-cluster" -> {"apply-security-hardening"}
      [] OTHER -> {}

\* pulumi.DependsOn of each NewCommand call
DependsOn(v, s) ==
    CASE s = "create-talos-cluster" -> IF v = "plain" THEN {"create-talos-dir"} ELSE {"lima-vm"}
      [] s = "lima-vm" -> {"create-dirs", "create-lima-config"}
      [] s = "export-kubeconfig" -> {"create-talos-cluster"}
      [] s = "wait-for-kubernetes" -> {"export-kubeconfig"}
      [] s = "apply-security-hardening" -> {"wait-for-kubernetes"}
      [] s = "verify-cluster" -> {"apply-security-hardening"}
      [] OTHER -> {}

RECURSIVE Ancestors(_, _, _)
Ancestors(v, s, fuel) ==
    IF fuel = 0 THEN {}
    ELSE DependsOn(v, s) \cup
         UNION { Ancestors(v, d, fuel - 1) : d \in DependsOn(v, s) }

Variants == {"plain", "vm"}

\* the dependency graph closed under transitivity, per variant and step
DepsClosure ==
    [v \in Variants |-> [s \in AllSteps |-> Ancestors(v, s, Len(Declared(v)))]]

\* the steps s depends on, directly or transitively
TransitiveDeps(v, s) == DepsClosure[v][s]

\* the steps that depend on s, directly or transitively
Dependents(v, s) == { t \in Range(Declared(v)) : s \in DepsClosure[v][t] }

\* the steps that declare a Delete script
HasDelete(s) ==
    s \in {"create-lima-config", "lima-vm", "create-talos-cluster", "export-kubeconfig"}

\* the first command of each Create script
FirstLine(s) ==
    CASE s \in {"create-talos-dir", "create-dirs"} -> "mkdir"
      [] s = "create-lima-config" -> "cat"
      [] s = "lima-vm" -> "list"
      [] s = "create-talos-cluster" -> "show"
      [] s = "export-kubeconfig" -> "kubeconfig"
      [] s = "wait-for-kubernetes" -> "ready"
      [] s = "apply-security-hardening" -> "label1"
      [] OTHER -> "get_nodes"

\* the first command of each Delete script
FirstDeleteLine(s) ==
    CASE s = "lima-vm" -> "stop"
      [] s = "create-talos-cluster" -> "destroy"
      [] OTHER -> "rm"

LoopSteps == {"lima-vm", "wait-for-kubernetes"}

Cap(s) == IF s = "lima-vm" THEN DockerLoopCap ELSE NodeLoopCap

----------------------------------------------------------------------------
(* Node-list queries and the text pipeline of the readiness loop *)

NodeStatus == {"Ready", "NotReady"}

RECURSIVE SeqsUpTo(_, _)
SeqsUpTo(S, n) ==
    IF n = 0 THEN { <<>> }
    ELSE SeqsUpTo(S, n - 1) \cup
         { Append(q, x) : q \in { r \in SeqsUpTo(S, n - 1) : Len(r) = n - 1 }, x \in S }

\* what `kubectl get nodes --no-headers 2>/dev/null` can print, one status per line
NodeLists == SeqsUpTo(NodeStatus, MaxNodes)

\* the outcomes of a node-list query: a failed query prints nothing on stdout
KubectlGetNodes ==
    { [ok |-> FALSE, out |-> <<>>] } \cup
    IF kubeconfig THEN { [ok |-> TRUE, out |-> l] : l \in NodeLists } ELSE {}

RECURSIVE CountReady(_)
CountReady(out) ==
    IF out = <<>> THEN 0
    ELSE (IF Head(out) = "Ready" THEN 1 ELSE 0) + CountReady(Tail(out))

\* grep -c " Ready ": prints the count of matching lines, exits 1 when it is 0
GrepC(out) == [stdout |-> << CountReady(out) >>,
               status |-> IF CountReady(out) > 0 THEN 0 ELSE 1]

\* wc -l | tr -d ' ': prints the number of lines, exits 0
WcL(out) == [stdout |-> << Len(out) >>, status |-> 0]

\* $( pipeline || echo "0" ): the text both sides printed
OrEcho0(r) == IF r.status = 0 THEN r.stdout ELSE r.stdout \o << 0 >>

\* [ "$READY" = "$TOTAL" ] && [ "$TOTAL" -gt 0 ]
AllNodesReady(ready, total) ==
    /\ ready = total
    /\ Len(total) = 1
    /\ total[1] > 0

\* what a query saw, as counts
Seen(q) == [ok |-> q.ok, total |-> Len(q.out), ready |-> CountReady(q.out)]

NoObs == [ok |-> FALSE, total |-> 0, ready |-> 0]

----------------------------------------------------------------------------
(* Initial state: nothing provisioned, an empty stack *)

Init ==
    /\ variant \in Variants
    /\ mode = "idle"
    /\ result = "none"
    /\ stack = {}
    /\ st = [s \in AllSteps |-> "pending"]
    /\ del = [s \in AllSteps |-> "none"]
    /\ line = [s \in AllSteps |-> "-"]
    /\ i = [s \in LoopSteps |-> 0]
    /\ READY = <<>>
    /\ TOTAL = <<>>
    /\ dirs = FALSE
    /\ limaConfig = FALSE
    /\ vm = "none"
    /\ cluster = FALSE
    /\ kubeconfig = FALSE
    /\ slept = [s \in LoopSteps |-> 0]
    /\ exhausted = {}
    /\ tookBreak = FALSE
    /\ obs1 = NoObs
    /\ obs2 = NoObs
    /\ lastNodes = NoObs
    /\ invoked = {}
    /\ cmdFailed = {}
    /\ upOk = FALSE
    /\ destroyOutcome = "none"

----------------------------------------------------------------------------
(* The engine: `up` *)

Fresh == [s \in AllSteps |-> "pending"]

Executed(s) == st[s] \in {"running", "succeeded", "failed"}

Done(s) == st[s] \in {"succeeded", "same"}

At(s, l) == mode = "up" /\ st[s] = "running" /\ line[s] = l

Goto(s, l) ==
    /\ line' = [line EXCEPT ![s] = l]
    /\ UNCHANGED <<variant, mode, result, stack, st, del, upOk>>

\* the script ends with this status: non-zero fails the resource, zero records it
Exit(s, code) ==
    /\ st' = [st EXCEPT ![s] = IF code = 0 THEN "succeeded" ELSE "failed"]
    /\ stack' = IF code = 0 THEN stack \cup {s} ELSE stack
    /\ line' = [line EXCEPT ![s] = "-"]
    /\ UNCHANGED <<variant, mode, result, del, upOk>>

\* the commands that create or start something
Creating == {"limactl create", "limactl start", "talosctl cluster create"}

\* a command of step s was run and ended ok or not
Ran(s, cmd, ok) ==
    /\ invoked' = invoked \cup ({cmd} \cap Creating)
    /\ cmdFailed' = IF ok THEN cmdFailed ELSE cmdFailed \cup {<<s, cmd>>}

\* `pulumi up`: resources already in the stack are left alone
Up ==
    /\ mode = "idle"
    /\ mode' = "up"
    /\ result' = "none"
    /\ st' = [s \in AllSteps |-> IF s \in stack THEN "same" ELSE "pending"]
    /\ del' = [s \in AllSteps |-> "none"]
    /\ upOk' = FALSE
    /\ destroyOutcome' = "none"
    /\ lastNodes' = NoObs
    /\ exhausted' = {}
    /\ tookBreak' = FALSE
    /\ invoked' = {}
    /\ cmdFailed' = {}
    /\ i' = [s \in LoopSteps |-> 0]
    /\ slept' = [s \in LoopSteps |-> 0]
    /\ UNCHANGED <<variant, stack, line, READY, TOTAL, world, obs1, obs2>>

StartsDespiteFailure(s) ==
    /\ st[s] = "pending"
    /\ \A d \in DependsOn(variant, s) : st[d] # "running" /\ st[d] # "pending"

\* a resource is created once everything it depends on is created, and nothing
\* new is started after a failure
CanStart(s) ==
    /\ st[s] = "pending"
    /\ \A d \in DependsOn(variant, s) : Done(d)
    /\ \A t \in Steps : st[t] # "failed"

Start(s) ==
    /\ mode = "up"
    /\ s \in Steps
    /\ CanStart(s)
    /\ st' = [st EXCEPT ![s] = "running"]
    /\ line' = [line EXCEPT ![s] = FirstLine(s)]
    /\ i' = IF s \in LoopSteps THEN [i EXCEPT ![s] = 1] ELSE i
    /\ slept' = IF s \in LoopSteps THEN [slept EXCEPT ![s] = 0] ELSE slept
    /\ UNCHANGED <<variant, mode, result, stack, del, upOk, READY, TOTAL,
                   world, exhausted, tookBreak, obs1, obs2, hist, cmds>>

UpDone ==
    /\ mode = "up"
    /\ \A s \in Steps : st[s] # "running"
    /\ \/ \E s \in Steps : st[s] = "failed"
       \/ \A s \in Steps : Done(s)
    /\ mode' = "idle"
    /\ upOk' = \A s \in Steps : Done(s)
    /\ result' = IF \A s \in Steps : Done(s) THEN "up-ok" ELSE "up-failed"
    /\ UNCHANGED <<variant, stack, st, del, line, shell, world, loops, hist, cmds>>

----------------------------------------------------------------------------
(* create-talos-dir / create-dirs and create-lima-config *)

\* mkdir -p
Mkdir ==
    /\ At(DirStep(variant), "mkdir")
    /\ \E ok \in BOOLEAN :
          /\ dirs' = (dirs \/ ok)
          /\ Ran(DirStep(variant), "mkdir", ok)
          /\ Exit(DirStep(variant), IF ok THEN 0 ELSE 1)
    /\ UNCHANGED <<shell, limaConfig, vm, cluster, kubeconfig, loops, hist>>

\* cat <<'EOF' > ./talos-docker.yaml
WriteLimaConfig ==
    /\ At("create-lima-config", "cat")
    /\ \E ok \in BOOLEAN :
          /\ limaConfig' = (limaConfig \/ ok)
          /\ Ran("create-lima-config", "cat", ok)
          /\ Exit("create-lima-config", IF ok THEN 0 ELSE 1)
    /\ UNCHANGED <<shell, dirs, vm, cluster, kubeconfig, loops, hist>>

----------------------------------------------------------------------------
(* The polling loops *)

LastIterationOffByOne(s) == i[s] = Cap(s) + 1

\* `for i in $(seq 1 N)`: the body has run for the last value
LastIteration(s) == i[s] = Cap(s)

\* break: $i and the time slept are not read again
Break(s) ==
    /\ i' = [i EXCEPT ![s] = 0]
    /\ slept' = [slept EXCEPT ![s] = 0]

----------------------------------------------------------------------------
(* lima-vm *)

\* if limactl list --format json | grep -q '"name":"talos-docker"'
LimaList ==
    /\ At("lima-vm", "list")
    /\ Goto("lima-vm", IF vm # "none" THEN "status" ELSE "create")
    /\ UNCHANGED <<shell, world, loops, hist, cmds>>

\* grep -A 5 '"name":...' | grep -q '"status":"Running"': the VM's own line, or
\* one of the five lines after it (other VMs of the listing)
LimaStatus ==
    /\ At("lima-vm", "status")
    /\ \E running \in (IF vm = "running" THEN {TRUE} ELSE BOOLEAN) :
          Goto("lima-vm", IF running THEN "docker_info" ELSE "start_existing")
    /\ UNCHANGED <<shell, world, loops, hist, cmds>>

\* limactl start talos-docker, of the existing VM
LimaStartExisting ==
    /\ At("lima-vm", "start_existing")
    /\ \E ok \in (IF vm # "none" THEN BOOLEAN ELSE {FALSE}) :
          /\ vm' = IF ok THEN "running" ELSE vm
          /\ Ran("lima-vm", "limactl start", ok)
    /\ Goto("lima-vm", "docker_info")
    /\ UNCHANGED <<shell, dirs, limaConfig, cluster, kubeconfig, loops, hist>>

\* limactl create --name=talos-docker ./talos-docker.yaml --tty=false
LimaCreate ==
    /\ At("lima-vm", "create")
    /\ \E ok \in (IF limaConfig /\ vm = "none" THEN BOOLEAN ELSE {FALSE}) :
          /\ vm' = IF ok THEN "stopped" ELSE vm
          /\ Ran("lima-vm", "limactl create", ok)
    /\ Goto("lima-vm", "start_new")
    /\ UNCHANGED <<shell, dirs, limaConfig, cluster, kubeconfig, loops, hist>>

\* limactl start talos-docker, after the create
LimaStartNew ==
    /\ At("lima-vm", "start_new")
    /\ \E ok \in (IF vm # "none" THEN BOOLEAN ELSE {FALSE}) :
          /\ vm' = IF ok THEN "running" ELSE vm
          /\ Ran("lima-vm", "limactl start", ok)
    /\ Goto("lima-vm", "docker_info")
    /\ UNCHANGED <<shell, dirs, limaConfig, cluster, kubeconfig, loops, hist>>

\* if DOCKER_HOST=... docker info: on success print the version and break, which
\* ends the script with status 0
DockerInfo ==
    /\ At("lima-vm", "docker_info")
    /\ \E ok \in (IF vm = "running" THEN BOOLEAN ELSE {FALSE}) :
          IF ok
          THEN /\ Exit("lima-vm", 0)
               /\ Break("lima-vm")
          ELSE /\ Goto("lima-vm", "sleep")
               /\ UNCHANGED <<i, slept>>
    /\ UNCHANGED <<READY, TOTAL, world, exhausted, tookBreak, obs1, obs2, hist, cmds>>

\* echo "Waiting for Docker... ($i/30)"; sleep 5; done: the next value of $i, or
\* the end of the loop and of the script, whose status is that of the sleep
DockerSleep ==
    /\ At("lima-vm", "sleep")
    /\ slept' = [slept EXCEPT !["lima-vm"] = @ + SleepSeconds]
    /\ IF LastIteration("lima-vm")
       THEN /\ exhausted' = exhausted \cup {"lima-vm"}
            /\ Exit("lima-vm", 0)
            /\ UNCHANGED i
       ELSE /\ i' = [i EXCEPT !["lima-vm"] = @ + 1]
            /\ Goto("lima-vm", "docker_info")
            /\ UNCHANGED exhausted
    /\ UNCHANGED <<READY, TOTAL, world, tookBreak, obs1, obs2, hist, cmds>>

----------------------------------------------------------------------------
(* create-talos-cluster *)

ShowNeverSucceeds == FALSE

\* talosctl cluster show --name talos-local >/dev/null 2>&1
ShowSucceeds == cluster

\* if talosctl cluster show ...; then echo "already exists"; exit 0; fi
ClusterShow ==
    /\ At("create-talos-cluster", "show")
    /\ IF ShowSucceeds
       THEN Exit("create-talos-cluster", 0)
       ELSE Goto("create-talos-cluster", "create")
    /\ UNCHANGED <<shell, world, loops, hist, cmds>>

\* talosctl cluster create ...; echo "created successfully": the echo is the
\* last command, so the script ends with status 0 whatever the create did
ClusterCreate ==
    /\ At("create-talos-cluster", "create")
    /\ \E ok \in BOOLEAN :
          /\ cluster' = (cluster \/ ok)
          /\ Ran("create-talos-cluster", "talosctl cluster create", ok)
    /\ Exit("create-talos-cluster", 0)
    /\ UNCHANGED <<shell, dirs, limaConfig, vm, kubeconfig, loops, hist>>

----------------------------------------------------------------------------
(* export-kubeconfig *)

\* sleep 5; talosctl kubeconfig ~/.kube/talos-config --force
TalosKubeconfig ==
    /\ At("export-kubeconfig", "kubeconfig")
    /\ \E ok \in (IF cluster THEN BOOLEAN ELSE {FALSE}) :
          /\ kubeconfig' = (kubeconfig \/ ok)
          /\ Ran("export-kubeconfig", "talosctl kubeconfig", ok)
    /\ Goto("export-kubeconfig", "verify")
    /\ UNCHANGED <<shell, dirs, limaConfig, vm, cluster, loops, hist>>

\* if kubectl --kubeconfig ... get nodes >/dev/null 2>&1; else: echo "Warning: ..."
ExportVerify ==
    /\ At("export-kubeconfig", "verify")
    /\ \E q \in KubectlGetNodes :
          IF q.ok
          THEN Goto("export-kubeconfig", "get_nodes")
          ELSE Exit("export-kubeconfig", 0)
    /\ UNCHANGED <<shell, world, loops, hist, cmds>>

\* then: echo "Kubeconfig exported successfully"; kubectl --kubeconfig ... get nodes
\* is the last command of the script
ExportGetNodes ==
    /\ At("export-kubeconfig", "get_nodes")
    /\ \E q \in KubectlGetNodes :
          /\ Ran("export-kubeconfig", "kubectl get nodes", q.ok)
          /\ Exit("export-kubeconfig", IF q.ok THEN 0 ELSE 1)
    /\ UNCHANGED <<shell, world, loops, hist>>

----------------------------------------------------------------------------
(* wait-for-kubernetes *)

\* READY=$(kubectl get nodes --no-headers 2>/dev/null | grep -c " Ready " || echo "0")
WaitReady ==
    /\ At("wait-for-kubernetes", "ready")
    /\ \E q \in KubectlGetNodes :
          /\ READY' = OrEcho0(GrepC(q.out))
          /\ obs1' = Seen(q)
    /\ Goto("wait-for-kubernetes", "total")
    /\ UNCHANGED <<i, TOTAL, world, slept, exhausted, tookBreak, obs2, hist, cmds>>

\* TOTAL=$(kubectl get nodes --no-headers 2>/dev/null | wc -l | tr -d ' ' || echo "0")
\* if [ "$READY" = "$TOTAL" ] && [ "$TOTAL" -gt 0 ]; then echo "All ..."; break; fi
\* echo "Waiting for nodes... ($READY/$TOTAL ready)": after this echo the two
\* values are not read again before the next iteration overwrites them
WaitTotal ==
    /\ At("wait-for-kubernetes", "total")
    /\ \E q \in KubectlGetNodes :
          IF AllNodesReady(READY, OrEcho0(WcL(q.out)))
          THEN /\ TOTAL' = OrEcho0(WcL(q.out))
               /\ obs2' = Seen(q)
               /\ tookBreak' = TRUE
               /\ Break("wait-for-kubernetes")
               /\ Goto("wait-for-kubernetes", "wait_pods")
               /\ UNCHANGED <<READY, obs1>>
          ELSE /\ TOTAL' = <<>>
               /\ READY' = <<>>
               /\ obs1' = NoObs
               /\ obs2' = NoObs
               /\ Goto("wait-for-kubernetes", "sleep")
               /\ UNCHANGED <<tookBreak, i, slept>>
    /\ UNCHANGED <<world, exhausted, hist, cmds>>

\* sleep 5; done: the next value of $i, or the end of the loop
WaitSleep ==
    /\ At("wait-for-kubernetes", "sleep")
    /\ slept' = [slept EXCEPT !["wait-for-kubernetes"] = @ + SleepSeconds]
    /\ IF LastIteration("wait-for-kubernetes")
       THEN /\ exhausted' = exhausted \cup {"wait-for-kubernetes"}
            /\ Goto("wait-for-kubernetes", "wait_pods")
            /\ UNCHANGED i
       ELSE /\ i' = [i EXCEPT !["wait-for-kubernetes"] = @ + 1]
            /\ Goto("wait-for-kubernetes", "ready")
            /\ UNCHANGED exhausted
    /\ UNCHANGED <<READY, TOTAL, world, tookBreak, obs1, obs2, hist, cmds>>

\* kubectl wait --for=condition=Ready pods --all -n kube-system ... || true
WaitPods ==
    /\ At("wait-for-kubernetes", "wait_pods")
    /\ READY' = <<>>
    /\ TOTAL' = <<>>
    /\ obs1' = NoObs
    /\ obs2' = NoObs
    /\ Goto("wait-for-kubernetes", "get_nodes")
    /\ UNCHANGED <<i, world, slept, exhausted, tookBreak, hist, cmds>>

\* echo "Kubernetes is ready"; kubectl get nodes -o wide is the last command
WaitGetNodes ==
    /\ At("wait-for-kubernetes", "get_nodes")
    /\ \E q \in KubectlGetNodes :
          /\ Ran("wait-for-kubernetes", "kubectl get nodes", q.ok)
          /\ Exit("wait-for-kubernetes", IF q.ok THEN 0 ELSE 1)
    /\ UNCHANGED <<shell, world, loops, hist>>

----------------------------------------------------------------------------
(* apply-security-hardening *)

LabelLines == << "label1", "label2", "label3", "label4" >>

\* kubectl label namespace ... --overwrite, four times
HardenLabel(k) ==
    /\ At("apply-security-hardening", LabelLines[k])
    /\ \E ok \in (IF kubeconfig THEN BOOLEAN ELSE {FALSE}) :
          Ran("apply-security-hardening", "kubectl label", ok)
    /\ Goto("apply-security-hardening",
            IF k < Len(LabelLines) THEN LabelLines[k + 1] ELSE "apply")
    /\ UNCHANGED <<shell, world, loops, hist>>

\* cat <<'NETPOL' | kubectl apply -f -; echo "Security hardening applied": the
\* echo is the last command
HardenApply ==
    /\ At("apply-security-hardening", "apply")
    /\ \E ok \in (IF kubeconfig THEN BOOLEAN ELSE {FALSE}) :
          Ran("apply-security-hardening", "kubectl apply", ok)
    /\ Exit("apply-security-hardening", 0)
    /\ UNCHANGED <<shell, world, loops, hist>>

----------------------------------------------------------------------------
(* verify-cluster *)

\* echo "Talos Cluster Ready" ...; kubectl get nodes -o wide
VerifyNodes ==
    /\ At("verify-cluster", "get_nodes")
    /\ \E q \in KubectlGetNodes : lastNodes' = Seen(q)
    /\ Goto("verify-cluster", "usage")
    /\ UNCHANGED <<shell, world, loops, destroyOutcome, cmds>>

\* kubectl get pods -n kube-system (plain variant); echo "Usage: ..." is the last
\* command
VerifyUsage ==
    /\ At("verify-cluster", "usage")
    /\ Exit("verify-cluster", 0)
    /\ UNCHANGED <<shell, world, loops, hist, cmds>>

----------------------------------------------------------------------------
(* The engine: `destroy` *)

DelAt(s, l) == mode = "destroy" /\ del[s] = "running" /\ line[s] = l

DelGoto(s, l) ==
    /\ line' = [line EXCEPT ![s] = l]
    /\ UNCHANGED <<variant, mode, result, stack, st, del, upOk>>

\* the Delete script ends with this status: zero removes the resource from the
\* stack, non-zero fails the deletion and the resource stays
DelExit(s, code) ==
    /\ del' = [del EXCEPT ![s] = IF code = 0 THEN "done" ELSE "failed"]
    /\ stack' = IF code = 0 THEN stack \ {s} ELSE stack
    /\ line' = [line EXCEPT ![s] = "-"]
    /\ UNCHANGED <<variant, mode, result, st, upOk>>

\* `pulumi destroy`
Destroy ==
    /\ mode = "idle"
    /\ stack # {}
    /\ mode' = "destroy"
    /\ result' = "none"
    /\ st' = Fresh
    /\ del' = [s \in AllSteps |-> "none"]
    /\ lastNodes' = NoObs
    /\ exhausted' = {}
    /\ tookBreak' = FALSE
    /\ invoked' = {}
    /\ cmdFailed' = {}
    /\ i' = [s \in LoopSteps |-> 0]
    /\ slept' = [s \in LoopSteps |-> 0]
    /\ UNCHANGED <<variant, stack, line, upOk, READY, TOTAL, world, obs1, obs2,
                   destroyOutcome>>

\* a resource is deleted once nothing left in the stack depends on it, and
\* nothing new is started after a failed deletion
CanDelete(s) ==
    /\ s \in stack
    /\ del[s] = "none"
    /\ \A t \in stack : s \notin DependsOn(variant, t)
    /\ \A t \in Steps : del[t] # "failed"

StartDelete(s) ==
    /\ mode = "destroy"
    /\ CanDelete(s)
    /\ IF HasDelete(s)
       THEN /\ del' = [del EXCEPT ![s] = "running"]
            /\ line' = [line EXCEPT ![s] = FirstDeleteLine(s)]
            /\ UNCHANGED stack
       ELSE /\ del' = [del EXCEPT ![s] = "done"]
            /\ stack' = stack \ {s}
            /\ UNCHANGED line
    /\ UNCHANGED <<variant, mode, result, st, upOk, shell, world, loops, hist, cmds>>

DestroyDone ==
    /\ mode = "destroy"
    /\ \A s \in Steps : del[s] # "running"
    /\ \/ stack = {}
       \/ \E s \in Steps : del[s] = "failed"
    /\ mode' = "idle"
    /\ result' = IF stack = {} THEN "destroy-ok" ELSE "destroy-failed"
    /\ UNCHANGED <<variant, stack, st, del, line, upOk, shell, world, loops, hist, cmds>>

----------------------------------------------------------------------------
(* The Delete scripts *)

\* rm -f ~/.kube/talos-config: the only command, so its status is the script's
DeleteKubeconfig ==
    /\ DelAt("export-kubeconfig", "rm")
    /\ \E ok \in BOOLEAN :
          /\ kubeconfig' = IF ok THEN FALSE ELSE kubeconfig
          /\ Ran("export-kubeconfig", "rm -f", ok)
          /\ DelExit("export-kubeconfig", IF ok THEN 0 ELSE 1)
    /\ UNCHANGED <<shell, dirs, limaConfig, vm, cluster, loops, hist>>

ClusterAfterDestroyKept(ok) == cluster

\* what is left of the cluster after talosctl cluster destroy
ClusterAfterDestroy(ok) == IF ok THEN FALSE ELSE cluster

\* talosctl cluster destroy --name talos-local 2>/dev/null || true; echo "destroyed"
ClusterDestroy ==
    /\ DelAt("create-talos-cluster", "destroy")
    /\ \E ok \in BOOLEAN :
          /\ cluster' = ClusterAfterDestroy(ok)
          /\ destroyOutcome' = IF ok THEN "ok" ELSE "failed"
          /\ Ran("create-talos-cluster", "talosctl cluster destroy", ok)
    /\ DelExit("create-talos-cluster", 0)
    /\ UNCHANGED <<shell, dirs, limaConfig, vm, kubeconfig, loops, lastNodes>>

\* limactl stop talos-docker 2>/dev/null || true
LimaStop ==
    /\ DelAt("lima-vm", "stop")
    /\ \E ok \in (IF vm = "running" THEN BOOLEAN ELSE {FALSE}) :
          /\ vm' = IF ok THEN "stopped" ELSE vm
          /\ Ran("lima-vm", "limactl stop", ok)
    /\ DelGoto("lima-vm", "delete")
    /\ UNCHANGED <<shell, dirs, limaConfig, cluster, kubeconfig, loops, hist>>

\* limactl delete talos-docker --force 2>/dev/null || true; echo "deleted"
LimaDelete ==
    /\ DelAt("lima-vm", "delete")
    /\ \E ok \in (IF vm # "none" THEN BOOLEAN ELSE {FALSE}) :
          /\ vm' = IF ok THEN "none" ELSE vm
          /\ Ran("lima-vm", "limactl delete", ok)
    /\ DelExit("lima-vm", 0)
    /\ UNCHANGED <<shell, dirs, limaConfig, cluster, kubeconfig, loops, hist>>

\* rm -f ./talos-docker.yaml: the only command, so its status is the script's
DeleteLimaConfig ==
    /\ DelAt("create-lima-config", "rm")
    /\ \E ok \in BOOLEAN :
          /\ limaConfig' = IF ok THEN FALSE ELSE limaConfig
          /\ Ran("create-lima-config", "rm -f", ok)
          /\ DelExit("create-lima-config", IF ok THEN 0 ELSE 1)
    /\ UNCHANGED <<shell, dirs, vm, cluster, kubeconfig, loops, hist>>

----------------------------------------------------------------------------
(* The specification *)

Next ==
    \/ Up
    \/ \E s \in AllSteps : Start(s)
    \/ UpDone
    \/ Mkdir
    \/ WriteLimaConfig
    \/ LimaList
    \/ LimaStatus
    \/ LimaStartExisting
    \/ LimaCreate
    \/ LimaStartNew
    \/ DockerInfo
    \/ DockerSleep
    \/ ClusterShow
    \/ ClusterCreate
    \/ TalosKubeconfig
    \/ ExportVerify
    \/ ExportGetNodes
    \/ WaitReady
    \/ WaitTotal
    \/ WaitSleep
    \/ WaitPods
    \/ WaitGetNodes
    \/ \E k \in 1..Len(LabelLines) : HardenLabel(k)
    \/ HardenApply
    \/ VerifyNodes
    \/ VerifyUsage
    \/ Destroy
    \/ \E s \in AllSteps : StartDelete(s)
    \/ DestroyDone
    \/ DeleteKubeconfig
    \/ ClusterDestroy
    \/ LimaStop
    \/ LimaDelete
    \/ DeleteLimaConfig

Spec == Init /\ [][Next]_vars

----------------------------------------------------------------------------
(* Claims *)

Finished(s) == st[s] \in {"succeeded", "failed"}

Running == { s \in Steps : st[s] = "running" }

InLoop(s) == st[s] = "running" /\ line[s] \in {"docker_info", "ready", "total", "sleep"}

NewlyInvoked(c) == c \in invoked' /\ c \notin invoked

AllReadySeen(o) == o.ok /\ o.total > 0 /\ o.ready = o.total

\* C1: in every step, when a command run by the create-action exits non-zero
\* the step is failed and no step depending on it, directly or transitively,
\* executes its create-action.
C1FailFast ==
    \A s \in Steps :
        ((\E c \in cmdFailed : c[1] = s) /\ Finished(s))
            => /\ st[s] = "failed"
               /\ \A t \in Dependents(variant, s) : ~Executed(t)

C3Idempotent ==
    [][ mode = "up" =>
          /\ cluster =>
                /\ cluster'
                /\ ~NewlyInvoked("talosctl cluster create")
                /\ (At("create-talos-cluster", "show") /\ line' # line)
                      => st'["create-talos-cluster"] = "succeeded"
          /\ vm # "none" => (vm' # "none" /\ ~NewlyInvoked("limactl create"))
          /\ vm = "running" => (vm' = "running" /\ ~NewlyInvoked("limactl start"))
      ]_vars

C3Witness ==
    /\ mode = "up"
    /\ variant = "vm"
    /\ st["lima-vm"] = "succeeded"
    /\ st["create-talos-cluster"] = "succeeded"
    /\ invoked = {}
    /\ cluster
    /\ vm = "running"

\* C4, in the case it names: after an `up` in which every step succeeded
\* although the node-readiness loop ran all its iterations, the kubeconfig file
\* exists and a node listing made with it that answers lists at least one node.
C4KubeconfigUsable ==
    (/\ mode = "idle"
     /\ result = "up-ok"
     /\ \A s \in Steps : st[s] = "succeeded"
     /\ "wait-for-kubernetes" \in exhausted
     /\ lastNodes.ok)
        => /\ kubeconfig
           /\ lastNodes.total >= 1

\* C5 as stated: after a successful `up` and a completed `destroy`, neither the
\* kubeconfig file nor the cluster exists, whatever talosctl cluster destroy did.
C5NothingLeft ==
    (mode = "idle" /\ result = "destroy-ok" /\ upOk)
        => (~kubeconfig /\ ~cluster)

\* C5 as amended: after a successful `up` and a completed `destroy`, the
\* kubeconfig file does not exist, talosctl cluster destroy has been run, and
\* the cluster does not exist if that command succeeded.
C5KubeconfigGoneClusterIfDestroyed ==
    (mode = "idle" /\ result = "destroy-ok" /\ upOk)
        => /\ ~kubeconfig
           /\ destroyOutcome # "none"
           /\ destroyOutcome = "ok" => ~cluster

C5Witness ==
    /\ mode = "idle"
    /\ result = "destroy-ok"
    /\ upOk
    /\ destroyOutcome = "ok"
    /\ ~cluster

\* C6: delete-actions run in reverse creation order, every delete-action
\* reports success even when its command fails, and so a `destroy` ends only
\* with every delete-action run and the stack empty.
C6BestEffortTeardown ==
    /\ \A s \in Steps : del[s] # "failed"
    /\ \A s \in Steps : del[s] # "none" => Dependents(variant, s) \cap stack = {}
    /\ (mode = "idle" /\ result \in {"destroy-ok", "destroy-failed"}) => stack = {}

\* C7: the container-runtime loop makes at most 30 probe iterations and the
\* node-readiness loop at most 60, each iteration that does not break sleeps 5
\* seconds (at most 150 s and 300 s), and a loop that ran out has been left.
C7LoopsBounded ==
    /\ i["lima-vm"] <= 30
    /\ slept["lima-vm"] <= 150
    /\ i["wait-for-kubernetes"] <= 60
    /\ slept["wait-for-kubernetes"] <= 300
    /\ \A s \in LoopSteps :
          /\ InLoop(s) =>
                /\ i[s] >= 1
                /\ slept[s] = 5 * (i[s] - 1)
          /\ s \in exhausted =>
                /\ ~InLoop(s)
                /\ slept[s] = 5 * i[s]

C7Witness ==
    /\ exhausted = LoopSteps
    /\ i["lima-vm"] = 30
    /\ slept["lima-vm"] = 150
    /\ i["wait-for-kubernetes"] = 60
    /\ slept["wait-for-kubernetes"] = 300
    /\ line["wait-for-kubernetes"] = "wait_pods"

\* C8: a step whose polling loop ran all its iterations without the readiness
\* condition holding still succeeds.
C8ExhaustionNotFailure ==
    \A s \in exhausted : st[s] # "failed"

\* the declared dependencies of variant v: a chain, but for the two first steps
\* of the VM variant, which lima-vm joins
ChainAfterJoin ==
    [v \in Variants |->
        /\ \A k \in 2..Len(Declared(v)) :
              DependsOn(v, Declared(v)[k]) =
                 IF v = "vm" /\ k = 2 THEN {}
                 ELSE IF v = "vm" /\ k = 3 THEN {"create-dirs", "create-lima-config"}
                 ELSE {Declared(v)[k - 1]}
        /\ \A s \in Range(Declared(v)), u \in Range(Declared(v)) :
              (s # u /\ {s, u} # {"create-dirs", "create-lima-config"})
                 => (s \in TransitiveDeps(v, u) \/ u \in TransitiveDeps(v, s))]

C10EarlyExitOnlyWhenAllReady ==
    (tookBreak /\ At("wait-for-kubernetes", "wait_pods"))
        => (AllReadySeen(obs1) \/ AllReadySeen(obs2))

\* C11: verify-cluster, which reports the hardening as applied, executes its
\* create-action only when every kubectl label and the kubectl apply of
\* apply-security-hardening ended successfully.
C11VerifyOnlyAfterHardening ==
    Executed("verify-cluster")
        => \A c \in cmdFailed : c[1] # "apply-security-hardening"

====
